---- MODULE Spec2Model ----
(***************************************************************************)
(* Model of the alma_rest job orchestrator (src/src/alma_rest/alma_rest.py) *)
(* and of the generic REST client (src/src/alma_rest/rest_call_api.py).     *)
(*                                                                          *)
(* The database is the four tables the orchestrator writes, as seen by the  *)
(* open session, plus the snapshot taken by the last commit.  The remote    *)
(* platform is an adversary: every HTTP request gets any response of        *)
(* Responses.  A Python value that may be None is a record                  *)
(* [isNone, v]; strings are sequences of tokens, so that startswith and     *)
(* substring tests are computed, not assumed.                               *)
(***************************************************************************)
EXTENDS Integers, Sequences, FiniteSets, TLC

\* ---------------------------------------------------------------- bounds
\* identifiers handed to the orchestrator during one process, over all calls
MaxIds == 2
\* call_api_for_list invocations during one process
MaxCalls == 2

\* rows of a CSV file handed to a CsvHelper
MaxRows == 3

\* iterations of extract_almaids on one CsvHelper
MaxIterations == 2

\* calls of add_to_source_csv_table on one CsvHelper
MaxAdds == 2

\* ------------------------------------------------------ values and inputs
None == [isNone |-> TRUE, v |-> <<>>]

Some(b) == [isNone |-> FALSE, v |-> b]

\* Python truthiness of an optional str/bytes: None and "" are falsy
Truthy(x) == ~x.isNone /\ x.v # <<>>

Last(s) == s[Len(s)]

\* an alma_id is the list str.split(alma_id, ',') of its segments
AlmaIds == { <<"991", "221">>, <<"992">> }

Methods == {"GET", "PUT", "DELETE", "POST", "PATCH"}

\* (api, record_type) pairs the caller passes
ApiCalls == { <<"bibs", "holdings">>, <<"acq", "vendors">> }

\* response bodies: one of each class call_api tells apart
Bodies ==
  { <<>>,
    <<"<?xml", "record">>,
    <<"<errorList>">>,
    <<"record">> }

StatusCodes == {200, 204, 400}

Responses == [status_code : StatusCodes, content : Bodies]

\* what the caller's manipulate_record may return
TransformResults == { None, Some(<<>>), Some(<<"<?xml", "changed">>) }

startswith(s, tok) == Len(s) > 0 /\ s[1] = tok

contains(s, tok) == \E k \in 1..Len(s) : s[k] = tok

LogLine(level, src) == [level |-> level, src |-> src]

api_base_url == "ALMA_REST_API_BASE_URL"

\* ------------------------------------------------------ persistence layer
add_alma_id_to_job_status_per_id(alma_id, action, ts, js) ==
  Append(js, [alma_id |-> alma_id, job_action |-> action,
              job_status |-> "new", job_timestamp |-> ts])

update_job_status(status, alma_id, action, ts, js) ==
  [k \in DOMAIN js |->
     IF /\ js[k].alma_id = alma_id
        /\ js[k].job_action = action
        /\ js[k].job_timestamp = ts
     THEN [js[k] EXCEPT !.job_status = status]
     ELSE js[k]]

add_response_content_to_fetched_records(alma_id, data, ts, tbl) ==
  Append(tbl, [alma_id |-> alma_id, job_timestamp |-> ts, record_data |-> data])

add_sent_record(alma_id, data, ts, tbl) ==
  Append(tbl, [alma_id |-> alma_id, job_timestamp |-> ts, record_data |-> data])

add_put_post_response(alma_id, data, ts, tbl) ==
  Append(tbl, [alma_id |-> alma_id, job_timestamp |-> ts, response_data |-> data])

\* the log lines of the sent/response audit
check_data_sent_equals_response(alma_id, ts, sent, resps) ==
  IF \E i \in DOMAIN sent, j \in DOMAIN resps :
       /\ sent[i].alma_id = alma_id /\ sent[i].job_timestamp = ts
       /\ resps[j].alma_id = alma_id /\ resps[j].job_timestamp = ts
       /\ sent[i].record_data # resps[j].response_data
  THEN << LogLine("warning", "check_data_sent_equals_response") >>
  ELSE << >>

CountStatus(action, ts, js, status) ==
  Cardinality({ k \in DOMAIN js :
                  /\ js[k].job_action = action
                  /\ js[k].job_timestamp = ts
                  /\ js[k].job_status = status })

\* the log line of the success rate: rows of (action, ts) grouped by status
log_success_rate(action, ts, js) ==
  [level |-> "info", src |-> "log_success_rate", action |-> action,
   done  |-> CountStatus(action, ts, js, "done"),
   error |-> CountStatus(action, ts, js, "error"),
   new   |-> CountStatus(action, ts, js, "new")]

\* ------------------------------------------------------ generic REST client
\* switch_api_method: the HTTP request sent, or ValueError
switch_api_method(alma_url, method, record_data) ==
  IF method \in {"DELETE", "GET"}
  THEN [raised |-> "none", logs |-> << >>,
        requests |-> << [method |-> method, url |-> alma_url, data |-> None] >>]
  ELSE IF method \in {"POST", "PUT"}
  THEN [raised |-> "none", logs |-> << >>,
        requests |-> << [method |-> method, url |-> alma_url, data |-> record_data] >>]
  ELSE [raised |-> "ValueError", requests |-> << >>,
        logs |-> << LogLine("error", "switch_api_method") >>]

\* a bug: any success status is taken for the expected one
status_matches_AnySuccess(resp, status_code) == resp.status_code \in {200, 204}

\* line 142
status_matches(resp, status_code) == resp.status_code = status_code

\* a bug: the test of the XML declaration comes before the test of the
\* error list
payload_check_PrefixFirst(content, status_code) ==
  IF ~startswith(content, "<?xml") /\ status_code # 204 THEN "not xml"
  ELSE IF contains(content, "<errorList>") THEN "errorList"
  ELSE "ok"

\* lines 147 and 151: the branch taken on a body of the expected status
payload_check(content, status_code) ==
  IF contains(content, "<errorList>") THEN "errorList"
  ELSE IF ~startswith(content, "<?xml") /\ status_code # 204 THEN "not xml"
  ELSE "ok"

\* call_api on the response resp that the platform gives to the request
call_api(url_parameters, method, status_code, record_data, resp) ==
  LET alma_url == <<api_base_url>> \o url_parameters
      sw == switch_api_method(alma_url, method, record_data)
      alma_response_content == resp.content
      completed == LogLine("info", "call_api")
  IN  IF sw.raised # "none"
      THEN [ret |-> None, raised |-> sw.raised, logs |-> sw.logs,
            requests |-> sw.requests]
      ELSE IF status_matches(resp, status_code)
      THEN IF payload_check(alma_response_content, status_code) = "errorList"
           THEN [ret |-> Some(alma_response_content), raised |-> "none",
                 logs |-> << completed, LogLine("warning", "call_api") >>,
                 requests |-> sw.requests]
           ELSE IF payload_check(alma_response_content, status_code) = "not xml"
           \* log_string += {alma_response_content}: str + set
           THEN [ret |-> None, raised |-> "TypeError",
                 logs |-> << completed >>, requests |-> sw.requests]
           ELSE [ret |-> Some(alma_response_content), raised |-> "none",
                 logs |-> << completed >>, requests |-> sw.requests]
      ELSE [ret |-> None, raised |-> "none",
            logs |-> << LogLine("error", "call_api") >>,
            requests |-> sw.requests]

\* parse.urlencode of a mapping, given as its (key, value) pairs in order:
\* key=value joined by &, a blank of a value quoted as +
quote_plus(v) == IF v = "a b" THEN "a+b" ELSE v

RECURSIVE urlencode(_)
urlencode(parameters) ==
  IF parameters = << >> THEN << >>
  ELSE LET p == parameters[1]
           head == << p[1], "=", quote_plus(p[2]) >>
       IN  IF Len(parameters) = 1 THEN head
           ELSE head \o << "&" >> \o urlencode(Tail(parameters))

\* lines 113-116: add_parameters logs the parameters and appends the query
\* string to url, which is its own local name: the function returns nothing
\* and the string of the caller is what it was
add_parameters_local(url, parameters) == url \o << "?" >> \o urlencode(parameters)

add_parameters(url, parameters) == url

WithIntent(src, r) == [r EXCEPT !.logs = << LogLine("info", src) >> \o r.logs]

\* lines 52-54: create posts to the base path itself
create(base_path, record_data, url_parameters, resp) ==
  LET path == IF url_parameters # << >>
              THEN add_parameters(base_path, url_parameters) ELSE base_path
  IN  WithIntent("create", call_api(path, "POST", 200, record_data, resp))

retrieve(base_path, record_id, url_parameters, resp) ==
  LET path == IF url_parameters # << >>
              THEN add_parameters(base_path, url_parameters) ELSE base_path
  IN  WithIntent("retrieve", call_api(path \o <<record_id>>, "GET", 200, None, resp))

delete(base_path, record_id, url_parameters, resp) ==
  LET path == IF url_parameters # << >>
              THEN add_parameters(base_path, url_parameters) ELSE base_path
  IN  WithIntent("delete", call_api(path \o <<record_id>>, "DELETE", 204, None, resp))

update(base_path, record_id, record_data, url_parameters, resp) ==
  LET path == IF url_parameters # << >>
              THEN add_parameters(base_path, url_parameters) ELSE base_path
  IN  WithIntent("update",
                 call_api(path \o <<record_id>>, "PUT", 200, record_data, resp))

\* ------------------------------------------------------------- dispatch
\* the resource classes: each fixes the base path of its family
BibsApi == <<"bibs">>

HoldingsApi(mms_id) == <<"bibs", mms_id, "holdings">>

ItemsApi(mms_id, hol_id) == <<"bibs", mms_id, "holdings", hol_id, "items">>

PortfoliosApi(mms_id) == <<"bibs", mms_id, "portfolios">>

EcollectionsApi == <<"electronic", "e-collections">>

EservicesApi(collection_id) ==
  <<"electronic", "e-collections", collection_id, "e-services">>

ElectronicPortfoliosApi(collection_id, service_id) ==
  <<"electronic", "e-collections", collection_id, "e-services", service_id,
    "portfolios">>

UsersApi == <<"users">>

Api(base_path) == [raised |-> "none", logs |-> << >>, base_path |-> base_path]

NoApi(exc, logs) == [raised |-> exc, logs |-> logs, base_path |-> << >>]

\* split_alma_id[k] of Python is split_alma_id[k + 1] here; an index past the
\* end is an IndexError
instantiate_api_class(alma_id, api, record_type) ==
  LET split_alma_id == alma_id
      n == Len(split_alma_id)
  IN  IF api = "bibs"
      THEN IF record_type = "bibs" THEN Api(BibsApi)
           ELSE IF record_type = "holdings"
           THEN Api(HoldingsApi(split_alma_id[1]))
           ELSE IF record_type = "items"
           THEN IF n < 2 THEN NoApi("IndexError", << >>)
                ELSE Api(ItemsApi(split_alma_id[1], split_alma_id[2]))
           ELSE IF record_type = "portfolios"
           THEN Api(PortfoliosApi(split_alma_id[1]))
           ELSE NoApi("NotImplementedError", << >>)
      ELSE IF api = "electronic"
      THEN IF record_type = "e-collections" THEN Api(EcollectionsApi)
           ELSE IF record_type = "e-services"
           THEN Api(EservicesApi(split_alma_id[1]))
           ELSE IF record_type = "portfolios"
           THEN IF n < 2 THEN NoApi("IndexError", << >>)
                ELSE Api(ElectronicPortfoliosApi(split_alma_id[1], split_alma_id[2]))
           ELSE NoApi("NotImplementedError", << >>)
      ELSE IF api = "users"
      THEN IF record_type = "users" THEN Api(UsersApi)
           ELSE NoApi("NotImplementedError", << >>)
      ELSE NoApi("NotImplementedError",
                 << LogLine("error", "instantiate_api_class") >>)

\* ------------------------------------------------------------------ state
VARIABLES
  pc,                 \* position of the process
  calls,              \* call_api_for_list invocations so far
  handed_ids,         \* (alma_id, method) of every identifier handed over so far
  alma_ids, api, record_type, method,   \* arguments of call_api_for_list
  idx,                \* identifiers of alma_ids the for loop is done with
  CurrentApi, record_data, new_record_data, response,  \* locals of call_api_for_record
  job_status, fetched_records, sent_records, put_post_responses,  \* session view
  committed,          \* the tables as of the last commit
  session_open,       \* the session of call_api_for_list
  requests,           \* HTTP requests sent, in order
  log,                \* log lines written since call_api_for_list was entered
  raised,             \* the exception that ended the process, or "none"
  last_call,          \* the client call just made: its response and outcome
  pre,                \* tables, requests and log when call_api_for_record began
  set_job,            \* call_api_for_set: its arguments, its session and position
  client,             \* a GenericApi call made with URL parameters
  flat,               \* get_records_via_api_for_csv_list of the flat generation
  csv,                \* a CsvHelper and the generator of extract_almaids
  dispatch            \* one call of instantiate_api_class on its own

args   == <<alma_ids, api, record_type, method>>
locals == <<CurrentApi, record_data, new_record_data, response>>
tables == <<job_status, fetched_records, sent_records, put_post_responses>>
orch   == <<pc, calls, handed_ids, args, idx, locals, tables, committed,
           session_open, requests, log, raised, last_call, pre>>
others == <<set_job, client, flat, csv, dispatch>>
vars   == <<orch, others>>

\* a bug: the timestamp is taken anew by every call_api_for_list
job_timestamp_PerCall == IF calls <= 1 THEN "t0" ELSE "t1"

\* module level of alma_rest.py (line 21): one timestamp per process
job_timestamp == "t0"

Tables ==
  [job_status |-> job_status, fetched_records |-> fetched_records,
   sent_records |-> sent_records, put_post_responses |-> put_post_responses]

EmptyTables ==
  [job_status |-> << >>, fetched_records |-> << >>,
   sent_records |-> << >>, put_post_responses |-> << >>]

NoCall ==
  [made |-> FALSE, method |-> "", status_code |-> 0,
   resp |-> [status_code |-> 0, content |-> << >>],
   ret |-> None, raised |-> "none", logs |-> << >>, requests |-> << >>]

\* what one client call did: r is the result of retrieve, delete or update
CallRecord(m, status_code, resp, r) ==
  [made |-> TRUE, method |-> m, status_code |-> status_code, resp |-> resp,
   ret |-> r.ret, raised |-> r.raised, logs |-> r.logs, requests |-> r.requests]

\* the identifier call_api_for_record is working on
alma_id == alma_ids[idx + 1]

record_id == Last(alma_id)

NoPre == [tables |-> EmptyTables, requests |-> 0, log |-> 0]

IdLists(n) == UNION { [1..k -> AlmaIds] : k \in 0..n }

OrchInit ==
  /\ pc = "idle"
  /\ calls = 0
  /\ handed_ids = << >>
  /\ alma_ids = << >>
  /\ api = ""
  /\ record_type = ""
  /\ method = ""
  /\ idx = 0
  /\ CurrentApi = << >>
  /\ record_data = None
  /\ new_record_data = None
  /\ response = None
  /\ job_status = << >>
  /\ fetched_records = << >>
  /\ sent_records = << >>
  /\ put_post_responses = << >>
  /\ committed = EmptyTables
  /\ session_open = FALSE
  /\ requests = << >>
  /\ log = << >>
  /\ raised = "none"
  /\ last_call = NoCall
  /\ pre = NoPre

\* the parts of the program that a run of call_api_for_list does not enter
NoSet == [pc |-> "off"]

NoClient == [pc |-> "off"]

NoFlat == [pc |-> "off"]

NoCsv == [pc |-> "off"]

NoInst == [pc |-> "off"]

Init ==
  /\ OrchInit
  /\ set_job = NoSet
  /\ client = NoClient
  /\ flat = NoFlat
  /\ csv = NoCsv
  /\ dispatch = NoInst

\* --------------------------------------------------------- call_api_for_list
\* line 77: the caller invokes call_api_for_list, which opens its session
CallApiForList ==
  /\ pc = "idle"
  /\ calls < MaxCalls
  /\ \E ids \in IdLists(MaxIds - Len(handed_ids)), m \in Methods, ac \in ApiCalls :
       /\ alma_ids' = ids
       /\ method' = m
       /\ api' = ac[1]
       /\ record_type' = ac[2]
       /\ handed_ids' = handed_ids \o
                          [k \in 1..Len(ids) |-> [alma_id |-> ids[k], method |-> m]]
  /\ calls' = calls + 1
  /\ idx' = 0
  /\ session_open' = TRUE
  /\ pc' = "loop"
  /\ CurrentApi' = << >>
  /\ record_data' = None
  /\ new_record_data' = None
  /\ response' = None
  /\ last_call' = NoCall
  /\ log' = << >>
  /\ UNCHANGED <<others, tables, committed, requests, raised, pre>>

\* a bug: the POST check is missing
check_method_PostPasses(m) ==
  IF m \notin {"DELETE", "GET", "PUT", "POST"} THEN "ValueError" ELSE "none"

\* lines 110-115: the exception the method check raises, or "none"
check_method(m) ==
  IF m \notin {"DELETE", "GET", "PUT", "POST"} THEN "ValueError"
  ELSE IF m = "POST" THEN "NotImplementedError"
  ELSE "none"

\* a bug: the row is registered under the requested method, as in lines 137, 148
register_get_row_AsMethod(js) ==
  add_alma_id_to_job_status_per_id(alma_id, method, job_timestamp, js)

\* line 119
register_get_row(js) ==
  add_alma_id_to_job_status_per_id(alma_id, "GET", job_timestamp, js)

\* lines 79-80 and 110-119: the loop hands the next identifier to
\* call_api_for_record, which checks the method, picks the API class and
\* registers the GET row
StartRecord ==
  /\ pc = "loop"
  /\ idx < Len(alma_ids)
  /\ pre' = [tables |-> Tables, requests |-> Len(requests), log |-> Len(log)]
  /\ record_data' = None
  /\ new_record_data' = None
  /\ response' = None
  /\ last_call' = NoCall
  /\ IF check_method(method) # "none"
     THEN /\ log' = IF check_method(method) = "ValueError"
                    THEN Append(log, LogLine("error", "call_api_for_record"))
                    ELSE log
          /\ raised' = check_method(method)
          /\ pc' = "raised"
          /\ UNCHANGED <<CurrentApi, job_status>>
     ELSE LET inst == instantiate_api_class(alma_id, api, record_type) IN
          IF inst.raised # "none"
          THEN /\ log' = log \o inst.logs
               /\ raised' = inst.raised
               /\ pc' = "raised"
               /\ UNCHANGED <<CurrentApi, job_status>>
          ELSE /\ CurrentApi' = inst.base_path
               /\ job_status' = register_get_row(job_status)
               /\ pc' = "retrieve"
               /\ UNCHANGED <<log, raised>>
  /\ UNCHANGED <<others, calls, handed_ids, args, idx, fetched_records, sent_records,
                 put_post_responses, committed, session_open, requests>>

\* a client call made from position pc: the request goes out, the log lines
\* are written, and the call returns to position next or raises
ClientCall(r, m, status_code, resp, next) ==
  /\ requests' = requests \o r.requests
  /\ log' = log \o r.logs
  /\ last_call' = CallRecord(m, status_code, resp, r)
  /\ IF r.raised # "none"
     THEN raised' = r.raised /\ pc' = "raised"
     ELSE raised' = raised /\ pc' = next

\* lines 121-122
Retrieve ==
  /\ pc = "retrieve"
  /\ \E resp \in Responses :
       LET r == retrieve(CurrentApi, record_id, << >>, resp) IN
         /\ ClientCall(r, "GET", 200, resp, "get_phase")
         /\ record_data' = r.ret
  /\ UNCHANGED <<others, calls, handed_ids, args, idx, CurrentApi, new_record_data, response,
                 tables, committed, session_open, pre>>

\* a bug: the method branches are not nested under the successful fetch
AfterGet_NoStop(data, m) ==
  IF m = "DELETE" THEN "register"
  ELSE IF m = "PUT" THEN "register"
  ELSE "final_commit"

\* where call_api_for_record goes on after the GET phase (lines 124, 135, 146)
AfterGet(data, m) ==
  IF ~Truthy(data) THEN "final_commit"
  ELSE IF m = "DELETE" THEN "register"
  ELSE IF m = "PUT" THEN "register"
  ELSE "final_commit"

\* a bug: the session is not committed after the GET phase
get_phase_commit_Missing(rows, fetched) == committed

\* line 133: the commit after the GET phase makes the fetched body and the
\* resolved GET row durable
get_phase_commit(rows, fetched) ==
  [Tables EXCEPT !.job_status = rows, !.fetched_records = fetched]

\* lines 124-133: the fetch failed, or the body is stored and committed
GetPhase ==
  /\ pc = "get_phase"
  /\ IF ~Truthy(record_data)
     THEN /\ log' = Append(log, LogLine("error", "call_api_for_record"))
          /\ job_status' = update_job_status(
                             "error", alma_id, "GET", job_timestamp, job_status)
          /\ UNCHANGED <<fetched_records, committed>>
     ELSE /\ fetched_records' = add_response_content_to_fetched_records(
                                  alma_id, record_data.v, job_timestamp, fetched_records)
          /\ job_status' = update_job_status(
                             "done", alma_id, "GET", job_timestamp, job_status)
          /\ committed' = get_phase_commit(job_status', fetched_records')
          /\ UNCHANGED log
  /\ pc' = AfterGet(record_data, method)
  /\ last_call' = NoCall
  /\ UNCHANGED <<others, calls, handed_ids, args, idx, locals, sent_records, put_post_responses,
                 session_open, requests, raised, pre>>

\* lines 137 and 148: the row of the requested method is registered
RegisterMethod ==
  /\ pc = "register"
  /\ job_status' = add_alma_id_to_job_status_per_id(
                     alma_id, method, job_timestamp, job_status)
  /\ pc' = IF method = "DELETE" THEN "delete" ELSE "manipulate"
  /\ UNCHANGED <<others, calls, handed_ids, args, idx, locals, fetched_records, sent_records,
                 put_post_responses, committed, session_open, requests, log,
                 raised, last_call, pre>>

\* line 139
Delete ==
  /\ pc = "delete"
  /\ \E resp \in Responses :
       LET r == delete(CurrentApi, record_id, << >>, resp) IN
         /\ ClientCall(r, "DELETE", 204, resp, "delete_status")
         /\ response' = r.ret
  /\ UNCHANGED <<others, calls, handed_ids, args, idx, CurrentApi, record_data, new_record_data,
                 tables, committed, session_open, pre>>

\* a bug: a failed delete leaves the DELETE row as it was registered
DeleteStatusFor_Unresolved(alma_response) == IF alma_response.isNone THEN "new" ELSE "done"

\* a bug: "if not alma_response" for "if alma_response is None"
DeleteStatusFor_Falsy(alma_response) == IF ~Truthy(alma_response) THEN "error" ELSE "done"

\* the status a DELETE row gets for the client's answer (line 141)
DeleteStatusFor(alma_response) == IF alma_response.isNone THEN "error" ELSE "done"

\* lines 141-144
DeleteStatus ==
  /\ pc = "delete_status"
  /\ job_status' = update_job_status(
                     DeleteStatusFor(response), alma_id, method, job_timestamp, job_status)
  /\ pc' = "final_commit"
  /\ last_call' = NoCall
  /\ UNCHANGED <<others, calls, handed_ids, args, idx, locals, fetched_records, sent_records,
                 put_post_responses, committed, session_open, requests, log,
                 raised, pre>>

\* a bug: "is None" for "not": the empty bytes count as a result
TransformFailed_IsNone(out) == out.isNone

\* line 152
TransformFailed(out) == ~Truthy(out)

\* lines 150-155: the caller's transform; nothing to send is an error.  With
\* the default manipulate_record=None (line 92) the call of line 150 is a
\* TypeError.
Manipulate ==
  /\ pc = "manipulate"
  /\ \/ \E out \in TransformResults :
          /\ new_record_data' = out
          /\ IF TransformFailed(out)
             THEN /\ log' = Append(log, LogLine("error", "call_api_for_record"))
                  /\ job_status' = update_job_status(
                                     "error", alma_id, method, job_timestamp, job_status)
                  /\ pc' = "final_commit"
             ELSE /\ pc' = "update"
                  /\ UNCHANGED <<log, job_status>>
          /\ UNCHANGED raised
     \/ /\ raised' = "TypeError"
        /\ pc' = "raised"
        /\ UNCHANGED <<new_record_data, log, job_status>>
  /\ UNCHANGED <<others, calls, handed_ids, args, idx, CurrentApi, record_data, response,
                 fetched_records, sent_records, put_post_responses, committed,
                 session_open, requests, last_call, pre>>

\* line 159
Update ==
  /\ pc = "update"
  /\ \E resp \in Responses :
       LET r == update(CurrentApi, record_id, new_record_data, << >>, resp) IN
         /\ ClientCall(r, "PUT", 200, resp, "put_status")
         /\ response' = r.ret
  /\ UNCHANGED <<others, calls, handed_ids, args, idx, CurrentApi, record_data, new_record_data,
                 tables, committed, session_open, pre>>

\* a bug: the fetched body is recorded as sent
sent_body_Fetched == record_data.v

\* line 166: the body recorded as sent
sent_body == new_record_data.v

\* lines 161-174
PutStatus ==
  /\ pc = "put_status"
  /\ IF Truthy(response)
     THEN /\ put_post_responses' = add_put_post_response(
                                     alma_id, response.v, job_timestamp, put_post_responses)
          /\ sent_records' = add_sent_record(
                               alma_id, sent_body, job_timestamp, sent_records)
          /\ job_status' = update_job_status(
                             "done", alma_id, method, job_timestamp, job_status)
          /\ log' = (log \o << LogLine("info", "call_api_for_record") >>)
                      \o check_data_sent_equals_response(
                           alma_id, job_timestamp, sent_records', put_post_responses')
     ELSE /\ log' = Append(log, LogLine("error", "call_api_for_record"))
          /\ job_status' = update_job_status(
                             "error", alma_id, method, job_timestamp, job_status)
          /\ UNCHANGED <<sent_records, put_post_responses>>
  /\ pc' = "final_commit"
  /\ last_call' = NoCall
  /\ UNCHANGED <<others, calls, handed_ids, args, idx, locals, fetched_records, committed,
                 session_open, requests, raised, pre>>

\* a bug: call_api_for_record returns without its last commit
final_commit_Missing == committed

\* line 176: db_session.commit() makes the whole session view durable
final_commit == Tables

\* line 176: call_api_for_record commits and returns to the loop; its locals
\* are gone
FinalCommit ==
  /\ pc = "final_commit"
  /\ committed' = final_commit
  /\ idx' = idx + 1
  /\ pc' = "loop"
  /\ CurrentApi' = << >>
  /\ record_data' = None
  /\ new_record_data' = None
  /\ response' = None
  /\ pre' = NoPre
  /\ UNCHANGED <<others, calls, handed_ids, args, tables, session_open, requests, log,
                 raised, last_call>>

\* a bug: the summary is taken for GET whatever the method
summary_line_Get(m, js) == log_success_rate("GET", job_timestamp, js)

\* line 82: log_success_rate(method, job_timestamp, db_session)
summary_line(m, js) == log_success_rate(m, job_timestamp, js)

\* lines 82-83: the loop is over; call_api_for_list returns
LogSuccessRate ==
  /\ pc = "loop"
  /\ idx = Len(alma_ids)
  /\ log' = Append(log, summary_line(method, job_status))
  /\ session_open' = FALSE
  /\ pc' = IF set_job.pc = "list" THEN "set_finish" ELSE "idle"
  /\ alma_ids' = << >>
  /\ api' = ""
  /\ record_type' = ""
  /\ method' = ""
  /\ idx' = 0
  /\ UNCHANGED <<others, calls, handed_ids, locals, tables, committed, requests,
                 raised, last_call, pre>>

Next ==
  \/ CallApiForList
  \/ StartRecord
  \/ Retrieve
  \/ GetPhase
  \/ RegisterMethod
  \/ Delete
  \/ DeleteStatus
  \/ Manipulate
  \/ Update
  \/ PutStatus
  \/ FinalCommit
  \/ LogSuccessRate

Spec == Init /\ [][Next]_vars

\* ------------------------------------------------------------ properties
\* At position "final_commit" every write of call_api_for_record is made and
\* only the commit of line 176 is left; pre holds the tables at its entry.

StatusRow(id, action, status) ==
  [alma_id |-> id, job_action |-> action, job_status |-> status,
   job_timestamp |-> job_timestamp]

\* job-status rows registered, and HTTP requests sent, by the running
\* call_api_for_record
NewRows == SubSeq(job_status, Len(pre.tables.job_status) + 1, Len(job_status))

NewRequests == SubSeq(requests, pre.requests + 1, Len(requests))

Mutating(reqs) == { k \in DOMAIN reqs : reqs[k].method \in {"PUT", "DELETE", "POST"} }

RecordOver == pc = "final_commit"

\* positions inside a running call_api_for_record (an exception leaves it
\* where it was raised)
InRecord ==
  pc \in {"retrieve", "get_phase", "register", "delete", "delete_status",
          "manipulate", "update", "put_status", "final_commit", "raised"}

\* the rows of the requested method among the rows of the running record
MethodRows == { k \in DOMAIN NewRows : NewRows[k].job_action \in {"PUT", "DELETE"} }

\* C1: when the retrieve call yields no record data, whatever the method, the
\* GET row of the identifier is set to error and nothing else happens for it:
\* no fetched_records row, no PUT or DELETE row, no update or delete request.
C1_FetchFailureStops ==
  (RecordOver /\ ~Truthy(record_data)) =>
     /\ NewRows = << StatusRow(alma_id, "GET", "error") >>
     /\ fetched_records = pre.tables.fetched_records
     /\ sent_records = pre.tables.sent_records
     /\ put_post_responses = pre.tables.put_post_responses
     /\ Len(NewRequests) = 1
     /\ Mutating(NewRequests) = {}

C1_Witness ==
  /\ RecordOver
  /\ ~Truthy(record_data)
  /\ method = "DELETE"
  /\ NewRequests[1].method = "GET"

\* C2: method GET with a successful retrieval adds exactly one job-status row,
\* (GET, done), and exactly one fetched_records row for the identifier and the
\* job timestamp; method DELETE with a successful delete adds exactly one more
\* row, (DELETE, done), and leaves fetched_records (beyond the fetched body),
\* sent_records and put_post_responses as they were.
C2_GetAndDeleteRows ==
  (RecordOver /\ Truthy(record_data)) =>
     /\ method = "GET" =>
          /\ NewRows = << StatusRow(alma_id, "GET", "done") >>
          /\ fetched_records =
               Append(pre.tables.fetched_records,
                      [alma_id |-> alma_id, job_timestamp |-> job_timestamp,
                       record_data |-> record_data.v])
          /\ sent_records = pre.tables.sent_records
          /\ put_post_responses = pre.tables.put_post_responses
     /\ (method = "DELETE" /\ ~response.isNone) =>
          /\ NewRows = << StatusRow(alma_id, "GET", "done"),
                          StatusRow(alma_id, "DELETE", "done") >>
          /\ fetched_records =
               Append(pre.tables.fetched_records,
                      [alma_id |-> alma_id, job_timestamp |-> job_timestamp,
                       record_data |-> record_data.v])
          /\ sent_records = pre.tables.sent_records
          /\ put_post_responses = pre.tables.put_post_responses

\* a delete answered 204 with the empty body, after an earlier identifier
C2_Witness ==
  /\ RecordOver
  /\ method = "DELETE"
  /\ Truthy(record_data)
  /\ response = Some(<< >>)
  /\ idx = 1

\* C3: method PUT where manipulate_record yields no value ends with a
\* (PUT, error) row after the untouched (GET, done) row, with nothing written
\* to sent_records or put_post_responses and no update request sent.
C3_TransformFailure ==
  (RecordOver /\ method = "PUT" /\ Truthy(record_data) /\ ~Truthy(new_record_data)) =>
     /\ NewRows = << StatusRow(alma_id, "GET", "done"),
                     StatusRow(alma_id, "PUT", "error") >>
     /\ sent_records = pre.tables.sent_records
     /\ put_post_responses = pre.tables.put_post_responses
     /\ Mutating(NewRequests) = {}

\* the transform returned the empty bytes
C3_Witness ==
  /\ RecordOver
  /\ method = "PUT"
  /\ Truthy(record_data)
  /\ new_record_data = Some(<< >>)

\* C4: method PUT after a successful retrieval and a non-empty transform
\* result: a non-empty response of the update call gives exactly one
\* sent_records row (the transformed body), exactly one put_post_responses row
\* (the response) and the PUT row done; an empty or absent response gives the
\* PUT row error and no row in either table.
C4_UpdateOutcome ==
  (RecordOver /\ method = "PUT" /\ Truthy(record_data) /\ Truthy(new_record_data)) =>
     IF Truthy(response)
     THEN /\ sent_records =
               Append(pre.tables.sent_records,
                      [alma_id |-> alma_id, job_timestamp |-> job_timestamp,
                       record_data |-> new_record_data.v])
          /\ put_post_responses =
               Append(pre.tables.put_post_responses,
                      [alma_id |-> alma_id, job_timestamp |-> job_timestamp,
                       response_data |-> response.v])
          /\ NewRows = << StatusRow(alma_id, "GET", "done"),
                          StatusRow(alma_id, "PUT", "done") >>
     ELSE /\ sent_records = pre.tables.sent_records
          /\ put_post_responses = pre.tables.put_post_responses
          /\ NewRows = << StatusRow(alma_id, "GET", "done"),
                          StatusRow(alma_id, "PUT", "error") >>

C4_Witness ==
  /\ RecordOver
  /\ method = "PUT"
  /\ Truthy(response)
  /\ Len(sent_records) = 1
  /\ sent_records[1].record_data # fetched_records[1].record_data

\* C8: call_api_for_record raises NotImplementedError for POST and ValueError
\* for a method outside DELETE, GET, PUT, POST, and raises before any effect:
\* no job-status row, no request, no commit.
C8_MethodCheckFirst ==
  (pc \notin {"idle", "loop"} /\ method \notin {"DELETE", "GET", "PUT"}) =>
     /\ pc = "raised"
     /\ raised = IF method = "POST" THEN "NotImplementedError" ELSE "ValueError"
     /\ Tables = pre.tables
     /\ committed = pre.tables
     /\ Len(requests) = pre.requests

\* the ValueError, raised in a process that has rows from an earlier call
C8_Witness ==
  /\ pc = "raised"
  /\ raised = "ValueError"
  /\ job_status # << >>

ErrorLines(logs) == { k \in DOMAIN logs : logs[k].level = "error" }

\* C10: call_api on a response whose status code differs from the expected
\* one returns no value, logs exactly one error, sends no second request and
\* does not raise; a body is returned only for the expected status code, and
\* it is the body of the response.
C10_StatusMismatch ==
  last_call.made =>
     /\ last_call.resp.status_code # last_call.status_code =>
          /\ last_call.ret = None
          /\ last_call.raised = "none"
          /\ Cardinality(ErrorLines(last_call.logs)) = 1
          /\ Len(last_call.requests) = 1
     /\ ~last_call.ret.isNone =>
          /\ last_call.resp.status_code = last_call.status_code
          /\ last_call.ret.v = last_call.resp.content

\* a delete answered 200 with a well-formed body
C10_Witness ==
  /\ last_call.made
  /\ last_call.method = "DELETE"
  /\ last_call.resp.status_code = 200
  /\ last_call.resp.content = <<"<?xml", "record">>
  /\ pc = "delete_status"

\* C5: a job-status row changes only from new to done or from new to error;
\* a row that is done or error never changes again and no row is deleted,
\* also when the same identifier is handed over more than once.
C5_OneDirectional ==
  [][ /\ Len(job_status') >= Len(job_status)
      /\ \A k \in DOMAIN job_status :
           \/ job_status'[k] = job_status[k]
           \/ /\ job_status[k].job_status = "new"
              /\ job_status'[k].job_status \in {"done", "error"}
              /\ job_status'[k] =
                   [job_status[k] EXCEPT !.job_status = job_status'[k].job_status]
    ]_vars

RowsFor(js, id, action) ==
  Cardinality({ k \in DOMAIN js :
                  /\ js[k].alma_id = id
                  /\ js[k].job_action = action
                  /\ js[k].job_timestamp = job_timestamp })

\* how often id was handed to the orchestrator in this process, with method m
Handed(id, ms) ==
  Cardinality({ k \in DOMAIN handed_ids :
                  handed_ids[k].alma_id = id /\ handed_ids[k].method \in ms })

\* call_api_for_list is through its loop
CallOver == pc = "loop" /\ idx = Len(alma_ids)

\* C6 as claimed: once call_api_for_list is over, every identifier of its
\* input has exactly one GET row for the job timestamp and at most one row of
\* the requested method.
C6_ExactlyOneRow ==
  CallOver =>
    \A k \in DOMAIN alma_ids :
       /\ RowsFor(job_status, alma_ids[k], "GET") = 1
       /\ method # "GET" => RowsFor(job_status, alma_ids[k], method) <= 1

\* C6 as amended: once call_api_for_list is over, every identifier has one GET
\* row for the job timestamp for each time it was handed to the orchestrator
\* in this process, so at least one, and at most one row of the requested
\* method for each time it was handed over with that method.
C6_OneRowPerOccurrence ==
  CallOver =>
    /\ \A id \in AlmaIds :
         /\ RowsFor(job_status, id, "GET") = Handed(id, {"GET", "PUT", "DELETE"})
         /\ \A m \in {"PUT", "DELETE"} :
              RowsFor(job_status, id, m) <= Handed(id, {m})
    /\ \A k \in DOMAIN alma_ids : RowsFor(job_status, alma_ids[k], "GET") >= 1

\* the same identifier twice in one list, updated once
C6_Witness ==
  /\ CallOver
  /\ method = "PUT"
  /\ Len(alma_ids) = 2
  /\ alma_ids[1] = alma_ids[2]
  /\ RowsFor(job_status, alma_ids[1], "GET") = 2
  /\ RowsFor(job_status, alma_ids[1], "PUT") = 1

HasDoneRow(js, id, action) ==
  \E k \in DOMAIN js : js[k] = StatusRow(id, action, "done")

\* C7: in every committed state each fetched_records row has a (GET, done)
\* job-status row of its identifier and timestamp, and each sent_records or
\* put_post_responses row has a (PUT, done) row.
C7_StoredMeansDone ==
  /\ \A k \in DOMAIN committed.fetched_records :
       HasDoneRow(committed.job_status, committed.fetched_records[k].alma_id, "GET")
  /\ \A k \in DOMAIN committed.sent_records :
       HasDoneRow(committed.job_status, committed.sent_records[k].alma_id, "PUT")
  /\ \A k \in DOMAIN committed.put_post_responses :
       HasDoneRow(committed.job_status, committed.put_post_responses[k].alma_id, "PUT")

SuccessRateLines == { k \in DOMAIN log : log[k].src = "log_success_rate" }

\* C9: whatever a remote call answers, the loop of call_api_for_list goes on
\* to the next identifier, and the success rate is logged exactly once, after
\* the last identifier, before the session is closed.
C9_ContinuesPastFailures ==
  /\ pc = "raised" => ~last_call.made
  /\ (pc = "idle" /\ calls > 0) =>
       /\ SuccessRateLines = { Len(log) }
       /\ ~session_open
  /\ SuccessRateLines # {} => pc = "idle"

\* C11: a response of the expected status, expected status other than 204,
\* whose body neither contains <errorList> nor starts with <?xml: call_api
\* logs an error and returns the body; it does not raise and does not return
\* an absent result.
C11_SuspiciousBodyReturned ==
  (/\ last_call.made
   /\ last_call.resp.status_code = last_call.status_code
   /\ last_call.status_code # 204
   /\ ~contains(last_call.resp.content, "<errorList>")
   /\ ~startswith(last_call.resp.content, "<?xml")) =>
     /\ last_call.raised = "none"
     /\ last_call.ret = Some(last_call.resp.content)
     /\ \E k \in DOMAIN last_call.logs : last_call.logs[k].level = "error"

SummaryStep == pc = "loop" /\ session_open /\ ~session_open'

Distinct(ids) == \A i, j \in DOMAIN ids : i # j => ids[i] # ids[j]

\* identifiers of the list whose retrieval failed
FailedRetrievals == CountStatus("GET", job_timestamp, job_status, "error")

\* the first call of the process, over distinct identifiers, each of which
\* either failed retrieval or went through with the method
FirstCallAllOrNothing ==
  /\ calls = 1
  /\ Distinct(alma_ids)
  /\ method # "GET" => CountStatus(method, job_timestamp, job_status, "error") = 0

\* C16 as claimed: the summary for the method reports n-k done, k error and
\* 0 new, whatever the method.
C16_CountsAddUp ==
  [][(SummaryStep /\ FirstCallAllOrNothing) =>
       LET line == Last(log') IN
         /\ line.src = "log_success_rate"
         /\ line.action = method
         /\ line.done = Len(alma_ids) - FailedRetrievals
         /\ line.error = FailedRetrievals
         /\ line.new = 0]_vars

\* C16: for the first call_api_for_list of a process over n distinct
\* identifiers, k failing retrieval and n-k going through with the method,
\* the summary logged for method GET reports n-k done, k error and 0 new;
\* for PUT and DELETE it reports n-k done, 0 error and 0 new, the k failed
\* retrievals having no row of the method.
C16_CountsPerMethod ==
  [][(SummaryStep /\ FirstCallAllOrNothing) =>
       LET line == Last(log') IN
         /\ line.src = "log_success_rate"
         /\ line.action = method
         /\ line.done = Len(alma_ids) - FailedRetrievals
         /\ line.error = (IF method = "GET" THEN FailedRetrievals ELSE 0)
         /\ line.new = 0]_vars

\* a PUT over two identifiers, one failed retrieval, has been summed up
C16_Witness ==
  /\ pc = "idle"
  /\ calls = 1
  /\ Len(handed_ids) = 2
  /\ handed_ids[1].alma_id # handed_ids[2].alma_id
  /\ log # << >>
  /\ Last(log).src = "log_success_rate"
  /\ Last(log).action = "PUT"
  /\ Last(log).done = 1
  /\ Last(log).error = 0
  /\ FailedRetrievals = 1

\* A process killed at some point leaves the database as of its last commit:
\* what a kill can leave behind is the pair (committed, requests) of a
\* reachable state.

\* update and delete requests sent for the record id of identifier id
MutatingRequests(id) ==
  Cardinality({ k \in DOMAIN requests :
                  /\ requests[k].method \in {"PUT", "DELETE", "POST"}
                  /\ Last(requests[k].url) = Last(id) })

\* committed rows of PUT or DELETE for id that are done or error
CommittedResolved(id) ==
  Cardinality({ k \in DOMAIN committed.job_status :
                  /\ committed.job_status[k].alma_id = id
                  /\ committed.job_status[k].job_action \in {"PUT", "DELETE"}
                  /\ committed.job_status[k].job_status \in {"done", "error"} })

\* identifiers with a remote update or delete that no committed row accounts for
PartiallyApplied == { id \in AlmaIds : MutatingRequests(id) > CommittedResolved(id) }

\* identifiers call_api_for_record is through with, over all calls of the process
Processed == Len(handed_ids) - Len(alma_ids) + idx

GetRequests == Cardinality({ k \in DOMAIN requests : requests[k].method = "GET" })

\* C19: at every point of a run the committed state has at most one partially
\* applied identifier (a committed (GET, done) row and an update or delete
\* request without a committed PUT or DELETE row done or error), which is the
\* one being processed; every committed row is resolved, and no identifier
\* after the one being processed has a request or a row.
C19_AtMostOnePartial ==
  /\ LET partial == PartiallyApplied IN
       /\ Cardinality(partial) <= 1
       /\ \A id \in partial :
            /\ HasDoneRow(committed.job_status, id, "GET")
            /\ idx < Len(alma_ids)
            /\ id = alma_id
  /\ \A k \in DOMAIN committed.job_status :
       committed.job_status[k].job_status \in {"done", "error"}
  /\ GetRequests \in {Processed, Processed + 1}
  /\ Cardinality(Mutating(requests)) <= Processed + 1
  /\ CountStatus("GET", job_timestamp, committed.job_status, "done")
       + CountStatus("GET", job_timestamp, committed.job_status, "error")
         <= Processed + 1

\* the delete of the second identifier is out and not yet recorded
C19_Witness ==
  /\ pc = "delete_status"
  /\ idx = 1
  /\ PartiallyApplied = { alma_id }
  /\ CommittedResolved(alma_ids[1]) = 1

\* ---------------------------------------------- GenericApi with parameters
\* One call of create, retrieve, update or delete on a GenericApi, with or
\* without URL parameters; the inputs are fixed by the initial state.
VendorsApi == <<"acq", "vendors">>

BasePaths == { BibsApi, VendorsApi }

RecordIds == { "991", "221" }

\* url_parameters: no mapping, one pair, two pairs (one value with a blank)
ParameterMaps ==
  { << >>,
    << <<"view", "full">> >>,
    << <<"view", "full">>, <<"q", "a b">> >> }

NoResult == [ret |-> None, raised |-> "none", logs |-> << >>, requests |-> << >>]

ClientInputs ==
  [pc : {"ready"}, op : {""}, base_path : BasePaths, record_id : RecordIds,
   record_data : { Some(<<"<?xml", "record">>) },
   url_parameters : ParameterMaps, resp : Responses, result : {NoResult}]

InitClient ==
  /\ OrchInit
  /\ set_job = NoSet
  /\ flat = NoFlat
  /\ csv = NoCsv
  /\ dispatch = NoInst
  /\ client \in ClientInputs

Called(op, r) ==
  /\ client' = [client EXCEPT !.pc = "called", !.op = op, !.result = r]
  /\ UNCHANGED <<orch, set_job, flat, csv, dispatch>>

ClientCreate ==
  /\ client.pc = "ready"
  /\ Called("create", create(client.base_path, client.record_data,
                             client.url_parameters, client.resp))

ClientRetrieve ==
  /\ client.pc = "ready"
  /\ Called("retrieve", retrieve(client.base_path, client.record_id,
                                 client.url_parameters, client.resp))

ClientUpdate ==
  /\ client.pc = "ready"
  /\ Called("update", update(client.base_path, client.record_id, client.record_data,
                             client.url_parameters, client.resp))

ClientDelete ==
  /\ client.pc = "ready"
  /\ Called("delete", delete(client.base_path, client.record_id,
                             client.url_parameters, client.resp))

NextClient ==
  \/ ClientCreate
  \/ ClientRetrieve
  \/ ClientUpdate
  \/ ClientDelete

SpecClient == InitClient /\ [][NextClient]_vars

\* the URL without parameters: base URL, resource path and, except for
\* create, the record id
PlainUrl ==
  << api_base_url >> \o client.base_path
     \o (IF client.op = "create" THEN << >> ELSE << client.record_id >>)

\* C13: with a non-empty url_parameters, the URL requested by create,
\* retrieve, update and delete is the URL without parameters followed by ?
\* and the URL-encoded parameters.
C13_ParametersInUrl ==
  (client.pc = "called" /\ client.url_parameters # << >>) =>
     /\ Len(client.result.requests) = 1
     /\ client.result.requests[1].url =
          PlainUrl \o << "?" >> \o urlencode(client.url_parameters)

\* ---------------------------------------------------------- call_api_for_set
\* A set id is a string without a comma: as an identifier it is the one
\* segment << set_id >>, as an action it is the string itself; the string
\* 'GET' as an identifier is << "GET" >>.
SetIds == { "S1", "S2" }

\* rest_conf.retrieve_set_member_alma_ids: no collection, or the identifiers
\* of the members (none for an empty set)
MemberLists(n) == { None } \cup { Some(ids) : ids \in IdLists(n) }

IdleSet ==
  [pc |-> "idle", set_id |-> "", alma_id_list |-> None, pending |-> << >>,
   requests_before |-> 0]

InitSet ==
  /\ OrchInit
  /\ set_job = IdleSet
  /\ client = NoClient
  /\ flat = NoFlat
  /\ csv = NoCsv
  /\ dispatch = NoInst

\* line 46: add_alma_id_to_job_status_per_id('GET', set_id, ...), where every
\* other call passes the identifier first and the action second
register_set_row(set_id, js) ==
  add_alma_id_to_job_status_per_id(<< "GET" >>, set_id, job_timestamp, js)

\* line 49: type(alma_id_list) is None; type() yields a class, never None
members_missing(alma_id_list) == FALSE

\* lines 45-53 and 77-79: the session of the set gets the row of the set (not
\* yet flushed), the members are resolved, and call_api_for_list is entered
\* with them; iterating over no collection raises TypeError
CallApiForSet ==
  /\ pc = "idle"
  /\ set_job.pc \in {"idle", "returned"}
  /\ calls < MaxCalls
  /\ \E set_id \in SetIds, alma_id_list \in MemberLists(MaxIds - Len(handed_ids)),
        m \in Methods, ac \in ApiCalls :
       LET registered == register_set_row(set_id, << >>)
           missing == members_missing(alma_id_list)
       IN  /\ set_job' =
                [pc |-> IF alma_id_list.isNone THEN "raised" ELSE "list",
                 set_id |-> set_id,
                 alma_id_list |-> alma_id_list,
                 pending |-> IF missing
                             THEN update_job_status("error", << set_id >>, "GET",
                                                    job_timestamp, registered)
                             ELSE registered,
                 requests_before |-> Len(requests)]
           /\ log' = IF missing THEN << LogLine("error", "call_api_for_set") >>
                     ELSE << >>
           /\ method' = m
           /\ api' = ac[1]
           /\ record_type' = ac[2]
           /\ IF alma_id_list.isNone
              THEN /\ alma_ids' = << >>
                   /\ raised' = "TypeError"
                   /\ pc' = "raised"
                   /\ UNCHANGED handed_ids
              ELSE /\ alma_ids' = alma_id_list.v
                   /\ handed_ids' =
                        handed_ids \o [k \in 1..Len(alma_id_list.v) |->
                                         [alma_id |-> alma_id_list.v[k], method |-> m]]
                   /\ pc' = "loop"
                   /\ UNCHANGED raised
  /\ calls' = calls + 1
  /\ idx' = 0
  /\ session_open' = TRUE
  /\ CurrentApi' = << >>
  /\ record_data' = None
  /\ new_record_data' = None
  /\ response' = None
  /\ last_call' = NoCall
  /\ UNCHANGED <<tables, committed, requests, pre, client, flat, csv, dispatch>>

\* lines 54-57: the row of the set is set to done in the session of the set,
\* which sees the committed rows and its own, and the session commits
SetFinish ==
  /\ pc = "set_finish"
  /\ LET view == update_job_status("done", << set_job.set_id >>, "GET", job_timestamp,
                                   committed.job_status \o set_job.pending)
     IN  /\ committed' = [committed EXCEPT !.job_status = view]
         /\ job_status' = view
  /\ set_job' = [set_job EXCEPT !.pc = "returned", !.pending = << >>]
  /\ pc' = "idle"
  /\ UNCHANGED <<calls, handed_ids, args, idx, locals, fetched_records, sent_records,
                 put_post_responses, session_open, requests, log, raised,
                 last_call, pre, client, flat, csv, dispatch>>

NextSet ==
  \/ CallApiForSet
  \/ StartRecord
  \/ Retrieve
  \/ GetPhase
  \/ RegisterMethod
  \/ Delete
  \/ DeleteStatus
  \/ Manipulate
  \/ Update
  \/ PutStatus
  \/ FinalCommit
  \/ LogSuccessRate
  \/ SetFinish

SpecSet == InitSet /\ [][NextSet]_vars

\* committed rows of the set itself: identifier set_id, action GET
SetRows(set_id) ==
  { k \in DOMAIN committed.job_status :
      /\ committed.job_status[k].alma_id = << set_id >>
      /\ committed.job_status[k].job_action = "GET"
      /\ committed.job_status[k].job_timestamp = job_timestamp }

SetReturned == pc = "idle" /\ set_job.pc = "returned"

\* C14: after call_api_for_set(set_id, ...) has returned normally, the
\* committed job_status_per_id has exactly one row with alma_id = set_id,
\* action GET and the job timestamp, and its status is done.
C14_SetRowDone ==
  SetReturned =>
     /\ Cardinality(SetRows(set_job.set_id)) = 1
     /\ \A k \in SetRows(set_job.set_id) :
          committed.job_status[k].job_status = "done"

\* C15: when the Sets API gives no collection or an empty one,
\* call_api_for_set does not raise, and once it has returned it has made no
\* member API call, has logged an error, and the row of the set is error.
C15_EmptySetIsError ==
  (set_job.pc # "idle" /\ ~Truthy(set_job.alma_id_list)) =>
     /\ set_job.pc # "raised"
     /\ SetReturned =>
          /\ Len(requests) = set_job.requests_before
          /\ ErrorLines(log) # {}
          /\ SetRows(set_job.set_id) # {}
          /\ \A k \in SetRows(set_job.set_id) :
               committed.job_status[k].job_status = "error"

\* ------------------------------------------- flat generation (src/alma_rest.py)
\* get_records_via_api_for_csv_list. A CSV file is given by the result of the
\* file check and by the identifiers of its rows that pass the validation of
\* the reader, in file order. The flat generation writes to source_csv,
\* job_status_per_id and fetched_records only.
FlatIds ==
  { <<"991">>, <<"991", "221">>, <<"221">>, <<"991", "531">>, <<"811">> }

FlatLists(n) == UNION { [1..k -> FlatIds] : k \in 0..n }

\* line 49: split_alma_id[-1][0:2]
id_prefix(split_alma_id) ==
  LET seg == Last(split_alma_id) IN
    CASE seg \in {"991", "992"} -> "99"
      [] seg = "221" -> "22"
      [] seg = "231" -> "23"
      [] seg = "531" -> "53"
      [] seg = "611" -> "61"
      [] OTHER -> "81"

NoFetch(exc, logs) ==
  [raised |-> exc, logs |-> logs, fetch |-> FALSE, base_path |-> << >>,
   record_id |-> ""]

Fetch(base_path, rec_id) ==
  [raised |-> "none", logs |-> << >>, fetch |-> TRUE, base_path |-> base_path,
   record_id |-> rec_id]

\* lines 48-71: the convenience retrieval chosen by the prefix, with the
\* segments it is given; a segment that is not there is an IndexError
flat_dispatch(split_alma_id) ==
  LET n == Len(split_alma_id)
      p == id_prefix(split_alma_id)
  IN  IF p = "99" THEN Fetch(BibsApi, split_alma_id[1])
      ELSE IF p = "22"
      THEN IF n < 2 THEN NoFetch("IndexError", << >>)
           ELSE Fetch(HoldingsApi(split_alma_id[1]), split_alma_id[2])
      ELSE IF p = "23"
      THEN IF n < 3 THEN NoFetch("IndexError", << >>)
           ELSE Fetch(ItemsApi(split_alma_id[1], split_alma_id[2]), split_alma_id[3])
      ELSE IF p = "53"
      THEN IF n < 2 THEN NoFetch("IndexError", << >>)
           ELSE Fetch(PortfoliosApi(split_alma_id[1]), split_alma_id[2])
      ELSE IF p = "61"
      THEN IF n < 2 THEN NoFetch("IndexError", << >>)
           ELSE Fetch(<<"bibs", split_alma_id[1], "e-collections">>, split_alma_id[2])
      ELSE NoFetch("none", << LogLine("error", "get_records_via_api_for_csv_list") >>)

\* db_read_write of the flat generation
add_csv_line_to_session(csv_line, ts, action, t) ==
  [t EXCEPT !.source_csv = Append(@, [job_timestamp |-> ts, csv_line |-> csv_line]),
            !.job_status = add_alma_id_to_job_status_per_id(csv_line, action, ts, @)]

get_list_of_ids_for_job_with_status(status, ts, js) ==
  LET F[k \in 0..Len(js)] ==
        IF k = 0 THEN << >>
        ELSE IF js[k].job_status = status /\ js[k].job_timestamp = ts
             THEN Append(F[k - 1], js[k].alma_id)
             ELSE F[k - 1]
  IN  F[Len(js)]

update_job_status_for_alma_id(status, id, ts, js) ==
  [k \in DOMAIN js |->
     IF js[k].alma_id = id /\ js[k].job_timestamp = ts
     THEN [js[k] EXCEPT !.job_status = status]
     ELSE js[k]]

add_fetched_record_to_session(id, data, ts, fr) ==
  Append(fr, [alma_id |-> id, job_timestamp |-> ts, record_data |-> data])

EmptyFlatTables == [source_csv |-> << >>, job_status |-> << >>, fetched_records |-> << >>]

IdleFlat ==
  [pc |-> "idle", runs |-> 0, imported |-> 0, file_ok |-> TRUE,
   view |-> EmptyFlatTables, committed |-> EmptyFlatTables, before |-> EmptyFlatTables,
   list_of_ids |-> << >>, i |-> 0, record_data |-> None,
   requests |-> << >>, log |-> << >>, outcomes |-> << >>, raised |-> "none"]

InitFlat ==
  /\ OrchInit
  /\ set_job = NoSet
  /\ client = NoClient
  /\ csv = NoCsv
  /\ dispatch = NoInst
  /\ flat = IdleFlat

\* a bug: an invalid path is passed over in silence
import_log_Silent(ok) == << >>

\* lines 92 and 100
import_log(ok) ==
  IF ok THEN << >> ELSE << LogLine("error", "import_csv_to_db_tables") >>

RECURSIVE import_lines(_, _)
\* lines 95-97: one add_csv_line_to_session per line read
import_lines(lines, t) ==
  IF lines = << >> THEN t
  ELSE import_lines(Tail(lines),
                    add_csv_line_to_session(Head(lines), job_timestamp, "GET", t))

\* lines 44-46: the session is created, the file is imported and committed
\* in a session of its own (or the error is logged), and the identifiers
\* with status new are read
GetRecordsViaApiForCsvList ==
  /\ flat.pc = "idle"
  /\ flat.runs < MaxCalls
  /\ \E ok \in BOOLEAN :
     \E lines \in (IF ok THEN FlatLists(MaxIds - flat.imported) ELSE { << >> }) :
       LET t == IF ok THEN import_lines(lines, flat.committed) ELSE flat.committed
       IN  flat' = [flat EXCEPT
                      !.pc = "loop",
                      !.runs = @ + 1,
                      !.imported = @ + Len(lines),
                      !.file_ok = ok,
                      !.before = flat.committed,
                      !.committed = t,
                      !.view = t,
                      !.list_of_ids = get_list_of_ids_for_job_with_status(
                                        "new", job_timestamp, t.job_status),
                      !.i = 0,
                      !.record_data = None,
                      !.requests = << >>,
                      !.outcomes = << >>,
                      !.log = import_log(ok)]
  /\ UNCHANGED <<orch, set_job, client, csv, dispatch>>

\* lines 47-71: the next identifier is dispatched and retrieved
FlatFetch ==
  /\ flat.pc = "loop"
  /\ flat.i < Len(flat.list_of_ids)
  /\ LET d == flat_dispatch(flat.list_of_ids[flat.i + 1]) IN
       IF ~d.fetch
       THEN flat' = [flat EXCEPT
                       !.pc = IF d.raised = "none" THEN "resolve" ELSE "raised",
                       !.raised = d.raised,
                       !.log = @ \o d.logs,
                       !.record_data = None]
       ELSE \E resp \in Responses :
              LET r == retrieve(d.base_path, d.record_id, << >>, resp) IN
                flat' = [flat EXCEPT
                           !.pc = IF r.raised = "none" THEN "resolve" ELSE "raised",
                           !.raised = r.raised,
                           !.log = @ \o r.logs,
                           !.requests = @ \o r.requests,
                           !.record_data = r.ret]
  /\ UNCHANGED <<orch, set_job, client, csv, dispatch>>

\* lines 72-76: `if record_data is None`
FlatResolve ==
  /\ flat.pc = "resolve"
  /\ LET id == flat.list_of_ids[flat.i + 1]
         js == flat.view.job_status
     IN  flat' = [flat EXCEPT
                    !.pc = "loop",
                    !.i = @ + 1,
                    !.record_data = None,
                    !.outcomes = Append(@, [alma_id |-> id, record_data |-> flat.record_data]),
                    !.view = IF flat.record_data.isNone
                             THEN [@ EXCEPT !.job_status =
                                     update_job_status_for_alma_id(
                                       "error", id, job_timestamp, js)]
                             ELSE [@ EXCEPT !.job_status =
                                     update_job_status_for_alma_id(
                                       "done", id, job_timestamp, js),
                                            !.fetched_records =
                                     add_fetched_record_to_session(
                                       id, flat.record_data.v, job_timestamp, @)]]
  /\ UNCHANGED <<orch, set_job, client, csv, dispatch>>

\* line 77: the one commit of the run
FlatCommit ==
  /\ flat.pc = "loop"
  /\ flat.i = Len(flat.list_of_ids)
  /\ flat' = [flat EXCEPT !.pc = "idle", !.committed = flat.view,
                          !.list_of_ids = << >>, !.i = 0]
  /\ UNCHANGED <<orch, set_job, client, csv, dispatch>>

NextFlat ==
  \/ GetRecordsViaApiForCsvList
  \/ FlatFetch
  \/ FlatResolve
  \/ FlatCommit

SpecFlat == InitFlat /\ [][NextFlat]_vars

\* a run of get_records_via_api_for_csv_list has completed
FlatDone == flat.pc = "idle" /\ flat.runs > 0

FlatRows(id) ==
  { k \in DOMAIN flat.committed.job_status :
      /\ flat.committed.job_status[k].alma_id = id
      /\ flat.committed.job_status[k].job_timestamp = job_timestamp }

FlatFetched(id) ==
  { k \in DOMAIN flat.committed.fetched_records :
      /\ flat.committed.fetched_records[k].alma_id = id
      /\ flat.committed.fetched_records[k].job_timestamp = job_timestamp }

\* C17: when a run of the flat entry point has completed, no imported
\* identifier is left with status new; an identifier whose retrieval returned
\* a body is done and has exactly one fetched_records row; an identifier of
\* an unknown prefix or whose retrieval returned nothing is error and has no
\* fetched_records row.
C17_FlatResolvesAll ==
  FlatDone =>
     /\ \A k \in DOMAIN flat.committed.job_status :
          flat.committed.job_status[k].job_status # "new"
     /\ \A k \in DOMAIN flat.outcomes :
          LET o == flat.outcomes[k] IN
            IF o.record_data.isNone
            THEN /\ \A r \in FlatRows(o.alma_id) :
                      flat.committed.job_status[r].job_status = "error"
                 /\ FlatFetched(o.alma_id) = {}
            ELSE /\ \A r \in FlatRows(o.alma_id) :
                      flat.committed.job_status[r].job_status = "done"
                 /\ Cardinality(FlatFetched(o.alma_id)) = 1

\* C18: a run of the flat entry point on a path for which the file check is
\* false logs an error, makes no remote call and leaves source_csv,
\* job_status_per_id and fetched_records, in the session and as committed,
\* as they were before the run.
C18_InvalidPathNoWrites ==
  (flat.runs > 0 /\ ~flat.file_ok) =>
     /\ flat.pc # "raised"
     /\ ErrorLines(flat.log) # {}
     /\ flat.view = flat.before
     /\ flat.committed = flat.before
     /\ flat.requests = << >>
     /\ flat.list_of_ids = << >>

\* the second run of a process, on an invalid path, after a run that imported
\* and resolved an identifier
C18_Witness ==
  /\ FlatDone
  /\ flat.runs = 2
  /\ ~flat.file_ok
  /\ flat.committed.job_status # << >>

\* ------------------------------------------------------------------ CsvHelper
\* A parsed row is an ordered mapping, given as its (column, value) pairs in
\* column order. The file is given by the rows that read_csv_contents yields.
CsvRows ==
  { << <<"MMS-ID", "991">>, <<"Consortium-ID", "XY1">> >>,
    << <<"MMS-ID", "992">>, <<"Consortium-ID", "XY1">> >>,
    << <<"MMS-ID", "991,221">>, <<"Consortium-ID", "991">> >> }

CsvFiles == UNION { [1..k -> CsvRows] : k \in 0..MaxRows }

\* timestamps and sessions a caller may hand to add_to_source_csv_table
CsvTimestamps == { "t0", "t1" }

CsvSessions == { "s1", "s2" }

NoAddArgs == [job_timestamp |-> "", db_session |-> ""]

\* a bug: the reader is stored as it is, a generator that is used up by the
\* first loop over it
stored_rows_Generator(rows) == [rows |-> rows, reusable |-> FALSE]

\* lines 32-34: list(input_read.read_csv_contents(...)), which every loop
\* goes through from its first element
stored_rows(rows) == [rows |-> rows, reusable |-> TRUE]

\* before construction: the file is there, nothing is read
CsvInputs ==
  [pc : {"new"}, file : CsvFiles, csv_line_list : { stored_rows(<< >>) },
   consumed : {0}, reads : {0},
   iterations : {0}, pos : {0}, yielded : {<< >>}, previous : {<< >>},
   adds : {0}, add_args : {NoAddArgs}, insert_calls : {<< >>}, commits : {0}]

InitCsv ==
  /\ OrchInit
  /\ set_job = NoSet
  /\ client = NoClient
  /\ flat = NoFlat
  /\ dispatch = NoInst
  /\ csv \in CsvInputs

\* dict.values() of an ordered mapping
values(csv_line) == [k \in 1..Len(csv_line) |-> csv_line[k][2]]

\* a bug: list(csv_line)[0], the name of the first column
first_value_Key(csv_line) == csv_line[1][1]

\* line 42: list(csv_line.values())[0]
first_value(csv_line) == values(csv_line)[1]

\* where a loop over self.csv_line_list starts, and where the running
\* iteration of extract_almaids stands
LoopStart == IF csv.csv_line_list.reusable THEN 0 ELSE csv.consumed

Cursor == IF csv.csv_line_list.reusable THEN csv.pos ELSE csv.consumed

\* lines 27-34: the constructor reads the whole file
CsvHelperInit ==
  /\ csv.pc = "new"
  /\ csv' = [csv EXCEPT !.pc = "ready", !.csv_line_list = stored_rows(csv.file),
                        !.reads = @ + 1]
  /\ UNCHANGED <<orch, set_job, client, flat, dispatch>>

\* extract_almaids is called and its generator is iterated from the start
ExtractStart ==
  /\ csv.pc \in {"ready", "exhausted"}
  /\ csv.iterations < MaxIterations
  /\ csv' = [csv EXCEPT !.pc = "iterating", !.iterations = @ + 1, !.pos = LoopStart,
                        !.yielded = << >>,
                        !.previous = csv.yielded]
  /\ UNCHANGED <<orch, set_job, client, flat, dispatch>>

\* lines 41-42: the generator yields for the next row
ExtractNext ==
  /\ csv.pc = "iterating"
  /\ Cursor < Len(csv.csv_line_list.rows)
  /\ csv' = [csv EXCEPT !.pos = Cursor + 1,
                        !.consumed = IF csv.csv_line_list.reusable THEN 0 ELSE Cursor + 1,
                        !.yielded = Append(@, first_value(csv.csv_line_list.rows[Cursor + 1]))]
  /\ UNCHANGED <<orch, set_job, client, flat, dispatch>>

\* line 41: the loop is over, the generator is exhausted
ExtractStop ==
  /\ csv.pc = "iterating"
  /\ Cursor = Len(csv.csv_line_list.rows)
  /\ csv' = [csv EXCEPT !.pc = "exhausted", !.pos = Cursor]
  /\ UNCHANGED <<orch, set_job, client, flat, dispatch>>

\* a bug: the session is committed after the last insert
add_to_source_csv_table_Commits(csv_lines, ts, session) ==
  [inserts |-> [k \in 1..Len(csv_lines) |->
                  [csv_line |-> csv_lines[k], job_timestamp |-> ts, db_session |-> session]],
   commits |-> 1]

\* lines 56-59: one db_write.add_csv_line_to_source_csv_table(csv_line,
\* job_timestamp, db_session) per row; the calls made and the commits made
add_to_source_csv_table(csv_lines, ts, session) ==
  [inserts |-> [k \in 1..Len(csv_lines) |->
                  [csv_line |-> csv_lines[k], job_timestamp |-> ts, db_session |-> session]],
   commits |-> 0]

\* add_to_source_csv_table is called, before, between or after the steps of
\* an iteration of extract_almaids
AddToSourceCsvTable ==
  /\ csv.pc \in {"ready", "iterating", "exhausted"}
  /\ csv.adds < MaxAdds
  /\ \E ts \in CsvTimestamps, session \in CsvSessions :
       LET rows == csv.csv_line_list.rows
           r == add_to_source_csv_table(SubSeq(rows, LoopStart + 1, Len(rows)),
                                        ts, session)
       IN  csv' = [csv EXCEPT
                     !.adds = @ + 1,
                     !.add_args = [job_timestamp |-> ts, db_session |-> session],
                     !.insert_calls = r.inserts,
                     !.commits = @ + r.commits,
                     !.consumed = IF csv.csv_line_list.reusable THEN 0 ELSE Len(rows)]
  /\ UNCHANGED <<orch, set_job, client, flat, dispatch>>

NextCsv ==
  \/ CsvHelperInit
  \/ ExtractStart
  \/ ExtractNext
  \/ ExtractStop
  \/ AddToSourceCsvTable

SpecCsv == InitCsv /\ [][NextCsv]_vars

\* C20: an iteration of extract_almaids has yielded, for the rows of the file
\* it is through with, the value of the first column of each, in file order,
\* one value per row and nothing else; when it is exhausted it is through
\* with every row, so for a file of zero rows it has yielded nothing.
C20_FirstColumnInOrder ==
  csv.pc \in {"iterating", "exhausted"} =>
     /\ csv.pos <= Len(csv.file)
     /\ csv.yielded = [k \in 1..csv.pos |-> csv.file[k][1][2]]
     /\ csv.pc = "exhausted" => csv.pos = Len(csv.file)

\* a file of two rows with different identifiers has been iterated over
C20_Witness ==
  /\ csv.pc = "exhausted"
  /\ Len(csv.file) = 2
  /\ Len(csv.yielded) = 2
  /\ csv.yielded[1] # csv.yielded[2]

\* the values of the first column of the file, in file order
FirstColumn == [k \in 1..Len(csv.file) |-> csv.file[k][1][2]]

\* C21: a call of add_to_source_csv_table on a CsvHelper of N rows has made
\* exactly N insert calls, the k-th with the k-th row of the file, each with
\* the job_timestamp and the session the call was given, and no commit; for
\* N = 0 it has made no insert call.
C21_OneInsertPerRow ==
  csv.adds > 0 =>
     /\ csv.insert_calls =
          [k \in 1..Len(csv.file) |->
             [csv_line |-> csv.file[k],
              job_timestamp |-> csv.add_args.job_timestamp,
              db_session |-> csv.add_args.db_session]]
     /\ csv.commits = 0

\* a file of two different rows has been added
C21_Witness ==
  /\ csv.adds = 1
  /\ Len(csv.file) = 2
  /\ csv.file[1] # csv.file[2]
  /\ Len(csv.insert_calls) = 2

\* C22: a CsvHelper reads its file once, at construction; whatever
\* iterations of extract_almaids and calls of add_to_source_csv_table came
\* before, every completed iteration has yielded the whole first column (the
\* same sequence as the iteration before it) and every call of
\* add_to_source_csv_table has gone through all rows.
C22_ReadOnceIterateOften ==
  csv.pc # "new" =>
     /\ csv.reads = 1
     /\ csv.csv_line_list.rows = csv.file
     /\ csv.pc = "exhausted" =>
          /\ csv.yielded = FirstColumn
          /\ csv.iterations > 1 => csv.yielded = csv.previous
     /\ csv.adds > 0 => Len(csv.insert_calls) = Len(csv.file)

\* the second iteration over a file with rows is complete, after a call of
\* add_to_source_csv_table
C22_Witness ==
  /\ csv.pc = "exhausted"
  /\ csv.iterations = 2
  /\ csv.adds > 0
  /\ csv.yielded # << >>
  /\ csv.previous = csv.yielded

\* ------------------------------------------------ instantiate_api_class alone
\* One call of instantiate_api_class; the arguments are fixed by the initial
\* state. An identifier has at least one segment (str.split never gives an
\* empty list).
DispatchIds == { <<"991">>, <<"991", "221">>, <<"991", "221", "231">> }

DispatchApis == { "bibs", "electronic", "users", "acq" }

DispatchRecordTypes ==
  { "bibs", "holdings", "items", "portfolios", "e-collections", "e-services",
    "users", "vendors" }

DispatchInputs ==
  [pc : {"ready"}, alma_id : DispatchIds, api : DispatchApis,
   record_type : DispatchRecordTypes, result : { NoApi("none", << >>) }]

InitDispatch ==
  /\ OrchInit
  /\ set_job = NoSet
  /\ client = NoClient
  /\ flat = NoFlat
  /\ csv = NoCsv
  /\ dispatch \in DispatchInputs

Instantiate ==
  /\ dispatch.pc = "ready"
  /\ dispatch' = [dispatch EXCEPT
                    !.pc = "done",
                    !.result = instantiate_api_class(dispatch.alma_id, dispatch.api,
                                                     dispatch.record_type)]
  /\ UNCHANGED <<orch, set_job, client, flat, csv>>

NextDispatch == Instantiate

SpecDispatch == InitDispatch /\ [][NextDispatch]_vars

\* the (api, record_type) pairs of the path table
RecognizedPairs ==
  { <<"bibs", "bibs">>, <<"bibs", "holdings">>, <<"bibs", "items">>,
    <<"bibs", "portfolios">>, <<"electronic", "e-collections">>,
    <<"electronic", "e-services">>, <<"electronic", "portfolios">>,
    <<"users", "users">> }

\* C23: instantiate_api_class returns a resource class exactly for the
\* recognized pairs and raises NotImplementedError for the others; it logs an
\* error exactly when api is none of bibs, electronic and users; it never
\* ends with another error, whatever the number of segments of alma_id.
C23_ClassOrNotImplemented ==
  dispatch.pc = "done" =>
     /\ dispatch.result.raised =
          (IF <<dispatch.api, dispatch.record_type>> \in RecognizedPairs
           THEN "none" ELSE "NotImplementedError")
     /\ (ErrorLines(dispatch.result.logs) # {})
          <=> (dispatch.api \notin {"bibs", "electronic", "users"})

\* C24: in call_api_for_record with method PUT or DELETE the GET phase is
\* committed before the PUT/DELETE row is registered, and that row is
\* registered before the remote update or delete call goes out: once the
\* row of the method exists, the committed state holds the identifier's
\* (GET, done) row and its fetched body; once a mutating request has been
\* sent, the row of the method exists.
C24_CommitRegisterCall ==
  InRecord =>
     /\ (MethodRows # {}) =>
          /\ Len(committed.job_status) > Len(pre.tables.job_status)
          /\ committed.job_status[Len(pre.tables.job_status) + 1]
               = StatusRow(alma_id, "GET", "done")
          /\ Len(committed.fetched_records) = Len(pre.tables.fetched_records) + 1
          /\ Last(committed.fetched_records) =
               [alma_id |-> alma_id, job_timestamp |-> job_timestamp,
                record_data |-> record_data.v]
     /\ (Mutating(NewRequests) # {}) =>
          /\ MethodRows # {}
          /\ \A k \in MethodRows : NewRows[k].job_action = method
          /\ \A k \in Mutating(NewRequests) : NewRequests[k].method = method

C24_Witness ==
  /\ pc = "put_status"
  /\ Mutating(NewRequests) # {}
  /\ committed.job_status # job_status

\* C25: no committed job-status row has status new: call_api_for_record
\* resolves every row it registers to done or error before the commit that
\* makes it visible, whatever the method and whatever the remote calls
\* answer; so every success rate logged after call_api_for_list counts 0 new.
C25_NoNewCommitted ==
  /\ \A k \in DOMAIN committed.job_status :
        committed.job_status[k].job_status \in {"done", "error"}
  /\ \A k \in SuccessRateLines : log[k].new = 0

\* a DELETE over two identifiers has been summed up: one delete failed, one
\* succeeded, both rows are committed
C25_Witness ==
  /\ pc = "idle"
  /\ SuccessRateLines # {}
  /\ Last(log).action = "DELETE"
  /\ Last(log).done = 1
  /\ Last(log).error = 1
  /\ committed.job_status = job_status
  /\ Len(committed.job_status) = 4

\* C26: the job timestamp is fixed once per process, not per call of
\* call_api_for_list: all rows of the process carry the same job_timestamp,
\* the success rate a call logs for its method counts the rows of that
\* method written by the earlier calls too, and an identifier handed over in
\* two calls has two rows with the same (alma_id, action, job_timestamp).
C26_TimestampPerProcess ==
  (pc = "idle" /\ calls >= 1) =>
     LET line == Last(log) IN
       /\ line.src = "log_success_rate"
       /\ \A k \in DOMAIN job_status :
             job_status[k].job_timestamp = job_status[1].job_timestamp
       /\ line.done + line.error + line.new =
            Cardinality({ k \in DOMAIN job_status :
                            job_status[k].job_action = line.action })
       /\ \A id \in AlmaIds :
             Handed(id, Methods) >= 2 =>
                \E j, k \in DOMAIN job_status :
                   /\ j < k
                   /\ job_status[j].alma_id = id
                   /\ job_status[j].job_action = "GET"
                   /\ [job_status[k] EXCEPT !.job_status = "new"]
                        = [job_status[j] EXCEPT !.job_status = "new"]

\* two calls for the same identifier, one identifier each: the second
\* success rate counts two rows
C26_Witness ==
  /\ pc = "idle"
  /\ calls = 2
  /\ Len(handed_ids) = 2
  /\ handed_ids[1] = handed_ids[2]
  /\ Last(log).action = "GET"
  /\ Last(log).done = 2
  /\ Len(job_status) = 2
  /\ job_status[1] = job_status[2]

====
